---- MODULE Spec2Model ----
(***************************************************************************)
(* Model of topi/python/topi/cuda/depthwise_conv2d_map.py:                 *)
(* schedule_depthwise_conv2d_map(op) walks the graph below `op` with       *)
(* traverse(), inlines the one-to-one-mapping operators and schedules the  *)
(* depthwise convolution with schedule_depthwise_conv2d().                 *)
(*                                                                         *)
(* A graph is a sequence of operations; operation k reads the outputs of   *)
(* lower-numbered operations, and input 0 stands for a placeholder (an     *)
(* operation with no input tensors).  The operation passed in is the last  *)
(* one, and it is the only declared output of the schedule.                *)
(***************************************************************************)
EXTENDS Integers, Sequences, FiniteSets, TLC

VARIABLES graph, shape, tile, stack, visited, attach, scope, sched, ncalls, status

vars == <<graph, shape, tile, stack, visited, attach, scope, sched, ncalls, status>>

-----------------------------------------------------------------------------
(* Bounds of the model *)

MaxOps == 3

MaxExtent == 100

MaxSmallExtent == 2

MaxBatch == 2

MaxChannel == 3

MaxMult == 2

MaxTile == 17

-----------------------------------------------------------------------------
(* Arithmetic helpers *)

CeilDiv(a, b) == (a + b - 1) \div b

-----------------------------------------------------------------------------
(* The graph *)

Tags == {"ewise", "scale_shift", "depthwise_conv2d", ""}

Ops == 1..Len(graph)

\* op: the operation handed to schedule_depthwise_conv2d_map
RootOp == Len(graph)

\* s.outputs of tvm.create_schedule(op)
Outputs == {RootOp}

\* str(tensor.op.input_tensors) != str([]): the producer is not a placeholder
NonLeaf(t) == t # 0

\* an operation reads one or two tensors, each a placeholder or a lower operation
InputLists(k) ==
    {<<a>> : a \in 0..(k - 1)} \cup {<<a, b>> : a \in 0..(k - 1), b \in 0..(k - 1)}

\* A depthwise_conv2d operation of topi.nn reads (PaddedInput, Filter); PaddedInput
\* is itself computed (the padding stage).
ConvInputs(k) == {<<p, f>> : p \in 1..(k - 1), f \in 0..(k - 1)}

OpRecords(k) ==
    {[tag |-> t, inputs |-> i] : t \in Tags \ {"depthwise_conv2d"}, i \in InputLists(k)}
    \cup {[tag |-> "depthwise_conv2d", inputs |-> i] : i \in ConvInputs(k)}

ConvOps(g) == {k \in 1..Len(g) : g[k].tag = "depthwise_conv2d"}

InputSet(g, k) == {g[k].inputs[i] : i \in 1..Len(g[k].inputs)}

\* every operation of the graph is below the root
Connected(g) == \A k \in 1..(Len(g) - 1) : \E c \in (k + 1)..Len(g) : k \in InputSet(g, c)

-----------------------------------------------------------------------------
(* Schedule primitives of the tvm library, as the loop nest they produce.     *)
(* A transform over named iteration variables is one of                       *)
(*   [kind |-> "factor", parent, by, outer, inner]   split(parent, factor=by) *)
(*   [kind |-> "nparts", parent, by, outer, inner]   split(parent, nparts=by) *)
(*   [kind |-> "fuse", parent, by |-> 0, outer, inner]                        *)
(*                                           parent = fuse(outer, inner)      *)
(* root maps the stage's own axes to their extents.                           *)

IsSplit(t) == t.kind \in {"factor", "nparts"}

Transforms(ts) == {ts[i] : i \in 1..Len(ts)}

\* extent of an iteration variable: split rounds up, fuse multiplies
RECURSIVE Extent(_, _, _)
Extent(root, ts, name) ==
    IF name \in DOMAIN root THEN root[name]
    ELSE LET made == {t \in Transforms(ts) :
                        \/ IsSplit(t) /\ name \in {t.outer, t.inner}
                        \/ t.kind = "fuse" /\ name = t.parent}
             t == CHOOSE x \in made : TRUE
         IN  IF t.kind = "fuse"
             THEN Extent(root, ts, t.outer) * Extent(root, ts, t.inner)
             ELSE IF t.kind = "factor"
             THEN IF name = t.outer THEN CeilDiv(Extent(root, ts, t.parent), t.by) ELSE t.by
             ELSE IF name = t.outer THEN t.by ELSE CeilDiv(Extent(root, ts, t.parent), t.by)

\* value of an iteration variable at a point p of the leaf loops:
\* parent = outer * extent(inner) + inner; outer, inner = fused div, mod extent(inner)
RECURSIVE Value(_, _, _, _)
Value(ext, how, p, name) ==
    IF name \in DOMAIN p THEN p[name]
    ELSE LET t == how[name]
         IN  IF t.kind # "fuse"
             THEN Value(ext, how, p, t.outer) * ext[t.inner] + Value(ext, how, p, t.inner)
             ELSE IF name = t.outer
             THEN Value(ext, how, p, t.parent) \div ext[t.inner]
             ELSE Value(ext, how, p, t.parent) % ext[t.inner]

\* how the value of a variable that is no leaf loop follows from the leaf loops: the
\* split it is the parent of, or the fuse it is an operand of
Derivation(ts) ==
    LET used(name) == {t \in Transforms(ts) :
                          \/ IsSplit(t) /\ name = t.parent
                          \/ t.kind = "fuse" /\ name \in {t.outer, t.inner}}
        derived == {name \in UNION {{t.parent, t.outer, t.inner} : t \in Transforms(ts)} :
                        used(name) # {}}
    IN  [name \in derived |-> CHOOSE t \in used(name) : TRUE]

\* the axis of the stage an iteration variable was split from
RECURSIVE RootAxis(_, _, _)
RootAxis(root, ts, name) ==
    IF name \in DOMAIN root THEN name
    ELSE LET made == {t \in Transforms(ts) : IsSplit(t) /\ name \in {t.outer, t.inner}}
         IN  IF made = {} THEN "fused"
             ELSE RootAxis(root, ts, (CHOOSE x \in made : TRUE).parent)

AllNames(root, ts) ==
    DOMAIN root
    \cup UNION {IF IsSplit(t) THEN {t.outer, t.inner} ELSE {t.parent} : t \in Transforms(ts)}

Extents(root, ts) == [nm \in AllNames(root, ts) |-> Extent(root, ts, nm)]

-----------------------------------------------------------------------------
(* schedule_depthwise_conv2d(PaddedInput, Filter, DepthwiseConv2d) *)

num_thread == 8

\* (deviating variant) the divisibility by 32 is tested before the divisibility by 48
TilingPolicy_32First(out_height, out_width) ==
    [num_thread    |-> num_thread,
     num_vthread_x |-> 1,
     num_vthread_y |-> IF out_width % 32 # 0 /\ out_width % 48 = 0 THEN 3 ELSE 1,
     blocking_h    |-> IF out_height % 32 = 0 THEN 32
                       ELSE IF out_height % 48 = 0 THEN 48
                       ELSE out_height,
     blocking_w    |-> IF out_width % 32 = 0 THEN 32
                       ELSE IF out_width % 48 = 0 THEN 48
                       ELSE out_width]

\* the schedule parameters chosen from the output height and width
TilingPolicy(out_height, out_width) ==
    [num_thread    |-> num_thread,
     num_vthread_x |-> 1,
     num_vthread_y |-> IF out_width % 48 = 0 THEN 3 ELSE 1,
     blocking_h    |-> IF out_height % 48 = 0 THEN 48
                       ELSE IF out_height % 32 = 0 THEN 32
                       ELSE out_height,
     blocking_w    |-> IF out_width % 48 = 0 THEN 48
                       ELSE IF out_width % 32 = 0 THEN 32
                       ELSE out_width]

\* tvm.thread_axis(...): the extent of each thread axis (0: taken from what is bound to it)
ThreadAxes(tp) ==
    [blockIdx_x  |-> 0,
     blockIdx_y  |-> 0,
     threadIdx_x |-> tp.num_thread,
     threadIdx_y |-> tp.num_thread,
     vx          |-> tp.num_vthread_x,
     vy          |-> tp.num_vthread_y]

\* the stage that is split and bound: the convolution if it is an output, else op.output(0)
OutputOf(conv) == IF conv \in Outputs THEN conv ELSE RootOp

\* Output.op.axis: batch, channel, height, width (one-to-one operators keep the shape)
AnchorRoot(shp) == [axis0 |-> shp.N, axis1 |-> shp.C, axis2 |-> shp.H, axis3 |-> shp.W]

\* (deviating variant) the channel axis is split with nparts=channel_multiplier
AnchorTransforms_ChannelNparts(shp, tp) ==
    << [kind |-> "nparts", parent |-> "axis1", by |-> shp.M, outer |-> "bxo", inner |-> "bxi"],
       [kind |-> "fuse",   parent |-> "bx",    by |-> 0, outer |-> "axis0", inner |-> "bxo"],
       [kind |-> "factor", parent |-> "axis2", by |-> tp.blocking_h, outer |-> "by1", inner |-> "y1i"],
       [kind |-> "nparts", parent |-> "y1i",   by |-> tp.num_vthread_x, outer |-> "tvx", inner |-> "vxi"],
       [kind |-> "nparts", parent |-> "vxi",   by |-> tp.num_thread, outer |-> "tx", inner |-> "xi"],
       [kind |-> "factor", parent |-> "axis3", by |-> tp.blocking_w, outer |-> "by2", inner |-> "y2i"],
       [kind |-> "nparts", parent |-> "y2i",   by |-> tp.num_vthread_y, outer |-> "tvy", inner |-> "vyi"],
       [kind |-> "nparts", parent |-> "vyi",   by |-> tp.num_thread, outer |-> "ty", inner |-> "yi"],
       [kind |-> "fuse",   parent |-> "by",    by |-> 0, outer |-> "by1", inner |-> "by2"] >>

\* (deviating variant) the width is tiled with factor=num_thread where the code passes nparts
AnchorTransforms_WidthFactor(shp, tp) ==
    << [kind |-> "factor", parent |-> "axis1", by |-> shp.M, outer |-> "bxo", inner |-> "bxi"],
       [kind |-> "fuse",   parent |-> "bx",    by |-> 0, outer |-> "axis0", inner |-> "bxo"],
       [kind |-> "factor", parent |-> "axis2", by |-> tp.blocking_h, outer |-> "by1", inner |-> "y1i"],
       [kind |-> "nparts", parent |-> "y1i",   by |-> tp.num_vthread_x, outer |-> "tvx", inner |-> "vxi"],
       [kind |-> "nparts", parent |-> "vxi",   by |-> tp.num_thread, outer |-> "tx", inner |-> "xi"],
       [kind |-> "factor", parent |-> "axis3", by |-> tp.blocking_w, outer |-> "by2", inner |-> "y2i"],
       [kind |-> "factor", parent |-> "y2i",   by |-> tp.num_vthread_y, outer |-> "tvy", inner |-> "vyi"],
       [kind |-> "nparts", parent |-> "vyi",   by |-> tp.num_thread, outer |-> "ty", inner |-> "yi"],
       [kind |-> "fuse",   parent |-> "by",    by |-> 0, outer |-> "by1", inner |-> "by2"] >>

\* the splits and fuses of s[Output], in program order; channel_multiplier is Filter.shape[1]
AnchorTransforms(shp, tp) ==
    << [kind |-> "factor", parent |-> "axis1", by |-> shp.M, outer |-> "bxo", inner |-> "bxi"],
       [kind |-> "fuse",   parent |-> "bx",    by |-> 0, outer |-> "axis0", inner |-> "bxo"],
       [kind |-> "factor", parent |-> "axis2", by |-> tp.blocking_h, outer |-> "by1", inner |-> "y1i"],
       [kind |-> "nparts", parent |-> "y1i",   by |-> tp.num_vthread_x, outer |-> "tvx", inner |-> "vxi"],
       [kind |-> "nparts", parent |-> "vxi",   by |-> tp.num_thread, outer |-> "tx", inner |-> "xi"],
       [kind |-> "factor", parent |-> "axis3", by |-> tp.blocking_w, outer |-> "by2", inner |-> "y2i"],
       [kind |-> "nparts", parent |-> "y2i",   by |-> tp.num_vthread_y, outer |-> "tvy", inner |-> "vyi"],
       [kind |-> "nparts", parent |-> "vyi",   by |-> tp.num_thread, outer |-> "ty", inner |-> "yi"],
       [kind |-> "fuse",   parent |-> "by",    by |-> 0, outer |-> "by1", inner |-> "by2"] >>

\* the leaf loops of s[Output] after the two reorders and the fuses, outermost first
AnchorOrder == <<"bx", "by", "tvx", "tvy", "tx", "ty", "xi", "yi", "bxi">>

\* (deviating variant) tx on threadIdx.y and ty on threadIdx.x
AnchorBind_Swapped ==
    [bx  |-> "blockIdx_x",
     tvx |-> "vx",
     tvy |-> "vy",
     tx  |-> "threadIdx_y",
     ty  |-> "threadIdx_x",
     by  |-> "blockIdx_y"]

\* s[Output].bind(...)
AnchorBind ==
    [bx  |-> "blockIdx_x",
     tvx |-> "vx",
     tvy |-> "vy",
     tx  |-> "threadIdx_x",
     ty  |-> "threadIdx_y",
     by  |-> "blockIdx_y"]

\* a shared-memory stage: its two spatial axes have the extents of the tile
StageRoot == [axis2 |-> tile[1], axis3 |-> tile[2]]

\* the split and bind of a shared-memory load (IS, and FS after its reorder)
SharedTransforms(tp) ==
    << [kind |-> "nparts", parent |-> "axis2", by |-> tp.num_thread, outer |-> "tx", inner |-> "xi"],
       [kind |-> "nparts", parent |-> "axis3", by |-> tp.num_thread, outer |-> "ty", inner |-> "yi"] >>

\* (deviating variant) both splits of the load bound to threadIdx.x
SharedBind_SameThread == [tx |-> "threadIdx_x", ty |-> "threadIdx_x"]

SharedBind == [tx |-> "threadIdx_x", ty |-> "threadIdx_y"]

\* s[FS].reorder(FS.op.axis[2], FS.op.axis[3], FS.op.axis[1]) and the splits
FilterOrder == <<"axis0", "tx", "xi", "ty", "yi", "axis1">>

InputOrder == <<"axis0", "axis1", "tx", "xi", "ty", "yi">>

NoTransforms == << >>

NoBind == [none |-> "none"]

\* (deviating variant) no cache_write: the convolution accumulates straight into its output
CacheStages_NoCacheWrite(conv, tp) ==
    LET shared(reads, order) ==
            [scope |-> "shared", reads |-> reads, at |-> "by",
             transforms |-> SharedTransforms(tp), bind |-> SharedBind, order |-> order,
             extents |-> Extents(StageRoot, SharedTransforms(tp)),
             derive |-> Derivation(SharedTransforms(tp))]
        local(reads) ==
            [scope |-> "local", reads |-> reads, at |-> "ty",
             transforms |-> NoTransforms, bind |-> NoBind, order |-> << >>,
             extents |-> << >>, derive |-> << >>]
    IN  [IS |-> shared("PaddedInput", InputOrder),
         FS |-> shared("Filter", FilterOrder),
         IL |-> local("IS"),
         FL |-> local("FS")]

\* the cache stages created by cache_read / cache_write, with scope and compute_at
CacheStages(conv, tp) ==
    LET shared(reads, order) ==
            [scope |-> "shared", reads |-> reads, at |-> "by",
             transforms |-> SharedTransforms(tp), bind |-> SharedBind, order |-> order,
             extents |-> Extents(StageRoot, SharedTransforms(tp)),
             derive |-> Derivation(SharedTransforms(tp))]
        local(reads) ==
            [scope |-> "local", reads |-> reads, at |-> "ty",
             transforms |-> NoTransforms, bind |-> NoBind, order |-> << >>,
             extents |-> << >>, derive |-> << >>]
        reads == [IS |-> shared("PaddedInput", InputOrder),
                  FS |-> shared("Filter", FilterOrder),
                  IL |-> local("IS"),
                  FL |-> local("FS")]
    IN  IF conv \in Outputs
        THEN [IS |-> reads.IS, FS |-> reads.FS, IL |-> reads.IL, FL |-> reads.FL,
              CL |-> local("DepthwiseConv2d")]
        ELSE reads

\* (deviating variant) the producers of PaddedInput are inlined with it
InlinedOperands_WithProducers(conv) ==
    {graph[conv].inputs[1]} \cup (InputSet(graph, graph[conv].inputs[1]) \ {0})

\* s[PaddedInput].compute_inline()
InlinedOperands(conv) == {graph[conv].inputs[1]}

NoSched == [conv |-> 0]

Scheduled == sched.conv # 0

ScheduleDepthwiseConv2d(conv) ==
    LET tp == TilingPolicy(shape.H, shape.W)
    IN  [conv       |-> conv,
         Output     |-> OutputOf(conv),
         tiling     |-> tp,
         threads    |-> ThreadAxes(tp),
         root       |-> AnchorRoot(shape),
         transforms |-> AnchorTransforms(shape, tp),
         extents    |-> Extents(AnchorRoot(shape), AnchorTransforms(shape, tp)),
         derive     |-> Derivation(AnchorTransforms(shape, tp)),
         order      |-> AnchorOrder,
         bind       |-> AnchorBind,
         stages     |-> CacheStages(conv, tp)]

\* the attach type and storage scope of the graph's own stages after the call
AttachAfter(conv) ==
    [k \in Ops |->
        IF k \in InlinedOperands(conv) THEN "inline"
        ELSE IF k = conv /\ conv \notin Outputs THEN "at_ty"
        ELSE attach[k]]

ScopeAfter(conv) ==
    [k \in Ops |-> IF k = conv /\ conv \notin Outputs THEN "local" ELSE scope[k]]

-----------------------------------------------------------------------------
(* traverse(OP): the call stack holds, per active call, the operation and the *)
(* position in its input_tensors (0: the body has not started)                *)

Top == stack[Len(stack)]

Running == status = "running" /\ stack # << >>

IsMap(tag) == tag = "ewise" \/ tag = "scale_shift"

\* (deviating variant) the test against s.outputs is dropped
InlineHere_Always(k) == TRUE

\* `if OP not in s.outputs`
InlineHere(k) == k \notin Outputs

\* the call returns; when it was traverse(op) itself, the schedule is returned
Pop ==
    /\ stack' = SubSeq(stack, 1, Len(stack) - 1)
    /\ status' = IF Len(stack) = 1 THEN "returned" ELSE status

\* the first branch of traverse on a one-to-one-mapping operator
VisitEwise ==
    /\ Running
    /\ Top.next = 0
    /\ IsMap(graph[Top.op].tag)
    /\ visited' = visited \cup {Top.op}
    /\ attach' = IF InlineHere(Top.op) THEN [attach EXCEPT ![Top.op] = "inline"] ELSE attach
    /\ stack' = [stack EXCEPT ![Len(stack)].next = 1]
    /\ UNCHANGED <<graph, shape, tile, scope, sched, ncalls, status>>

\* one turn of `for tensor in OP.input_tensors`
Descend ==
    /\ Running
    /\ Top.next \in 1..Len(graph[Top.op].inputs)
    /\ LET t == graph[Top.op].inputs[Top.next]
           advanced == [stack EXCEPT ![Len(stack)].next = Top.next + 1]
       IN  \/ /\ NonLeaf(t)
              /\ stack' = Append(advanced, [op |-> t, next |-> 0])
           \/ /\ ~NonLeaf(t)
              /\ stack' = advanced
    /\ UNCHANGED <<graph, shape, tile, visited, attach, scope, sched, ncalls, status>>

\* the second branch of traverse, on the convolution
ScheduleConv ==
    /\ Running
    /\ Top.next = 0
    /\ graph[Top.op].tag = "depthwise_conv2d"
    /\ ncalls = 0
    /\ visited' = visited \cup {Top.op}
    /\ sched' = ScheduleDepthwiseConv2d(Top.op)
    /\ attach' = AttachAfter(Top.op)
    /\ scope' = ScopeAfter(Top.op)
    /\ ncalls' = ncalls + 1
    /\ Pop
    /\ UNCHANGED <<graph, shape, tile>>

\* the convolution is reached again along another producer path: the calls of
\* schedule_depthwise_conv2d are issued a second time on stages that are already
\* transformed; the library either rejects them or applies them
RescheduleConv ==
    /\ Running
    /\ Top.next = 0
    /\ graph[Top.op].tag = "depthwise_conv2d"
    /\ ncalls > 0
    /\ ncalls' = ncalls + 1
    /\ \/ /\ status' = "failed"
          /\ stack' = << >>
          /\ UNCHANGED <<sched, attach, scope>>
       \/ /\ sched' = ScheduleDepthwiseConv2d(Top.op)
          /\ attach' = AttachAfter(Top.op)
          /\ scope' = ScopeAfter(Top.op)
          /\ Pop
    /\ UNCHANGED <<graph, shape, tile, visited>>

\* the loop of a one-to-one-mapping operator is over, or neither branch applies
Return ==
    /\ Running
    /\ \/ IsMap(graph[Top.op].tag) /\ Top.next > Len(graph[Top.op].inputs)
       \/ ~IsMap(graph[Top.op].tag) /\ graph[Top.op].tag # "depthwise_conv2d"
    /\ visited' = visited \cup {Top.op}
    /\ Pop
    /\ UNCHANGED <<graph, shape, tile, attach, scope, sched, ncalls>>

-----------------------------------------------------------------------------
(* Specifications *)

DefaultShape == [N |-> 1, C |-> 1, M |-> 1, H |-> 1, W |-> 1]

DefaultTile == <<1, 1>>

\* the graph g has been declared and nothing is scheduled yet
Declared(g, shp, tl) ==
    /\ graph = g
    /\ shape = shp
    /\ tile = tl
    /\ stack = << >>
    /\ visited = {}
    /\ attach = << >>
    /\ scope = << >>
    /\ sched = NoSched
    /\ ncalls = 0
    /\ status = "declaring"

\* the caller declares one more operation (at most one depthwise convolution)
Declare ==
    /\ status = "declaring"
    /\ Len(graph) < MaxOps
    /\ \E r \in OpRecords(Len(graph) + 1) :
          /\ r.tag = "depthwise_conv2d" => ConvOps(graph) = {}
          /\ graph' = Append(graph, r)
    /\ UNCHANGED <<shape, tile, stack, visited, attach, scope, sched, ncalls, status>>

\* schedule_depthwise_conv2d_map(op) on the last operation declared:
\* s = tvm.create_schedule(op), then traverse(op) is entered
Invoke ==
    /\ status = "declaring"
    /\ Len(graph) >= 1
    /\ Connected(graph)
    /\ stack' = << [op |-> RootOp, next |-> 0] >>
    /\ attach' = [k \in Ops |-> "root"]
    /\ scope' = [k \in Ops |-> ""]
    /\ status' = "running"
    /\ UNCHANGED <<graph, shape, tile, visited, sched, ncalls>>

Init == Declared(<< >>, DefaultShape, DefaultTile)

Next == Declare \/ Invoke \/ VisitEwise \/ Descend \/ ScheduleConv \/ RescheduleConv \/ Return

Spec == Init /\ [][Next]_vars

\* the two graphs of the documented form: the convolution alone, and the convolution
\* followed by a scale_shift (which also reads a placeholder)
ConvOnly ==
    << [tag |-> "", inputs |-> <<0>>],
       [tag |-> "depthwise_conv2d", inputs |-> <<1, 0>>] >>

ConvThenMap == Append(ConvOnly, [tag |-> "scale_shift", inputs |-> <<2, 0>>])

ChainGraphs == {ConvOnly, ConvThenMap}

NextChain == Invoke \/ VisitEwise \/ Descend \/ ScheduleConv \/ Return

InitTiling ==
    \E g \in ChainGraphs, h \in 1..MaxExtent, w \in 1..MaxExtent :
        Declared(g, [DefaultShape EXCEPT !.H = h, !.W = w], DefaultTile)

SpecTiling == InitTiling /\ [][NextChain]_vars

SmallExtents == 1..MaxSmallExtent

\* 12: one whole-extent tile, not a multiple of 8; 48: one tile of 48; 64: two tiles
\* of 32; 96: two tiles of 48 (and three virtual threads along the width)
GridHeights == SmallExtents \cup {12, 48, 64}

GridWidths == SmallExtents \cup {12, 96}

GridShapes ==
    {[N |-> n, C |-> c, M |-> m, H |-> h, W |-> w] :
        n \in 1..MaxBatch, c \in 1..MaxChannel, m \in 1..MaxMult,
        h \in GridHeights, w \in GridWidths}

InitGrid == \E g \in ChainGraphs, shp \in GridShapes : Declared(g, shp, DefaultTile)

SpecGrid == InitGrid /\ [][NextChain]_vars

InitFetch ==
    \E g \in ChainGraphs, eh \in 1..MaxTile, ew \in 1..MaxTile :
        Declared(g, DefaultShape, <<eh, ew>>)

SpecFetch == InitFetch /\ [][NextChain]_vars

-----------------------------------------------------------------------------
(* The loop nest a finished schedule describes *)

Returned == status = "returned" /\ Scheduled

AnchorExtents == sched.extents

\* every point of the leaf loops of the anchor stage
AnchorPoints ==
    LET ext == AnchorExtents
    IN  {[bx |-> a, by |-> b, tvx |-> c, tvy |-> d, tx |-> e, ty |-> f,
          xi |-> g, yi |-> h, bxi |-> i] :
            a \in 0..(ext["bx"] - 1), b \in 0..(ext["by"] - 1),
            c \in 0..(ext["tvx"] - 1), d \in 0..(ext["tvy"] - 1),
            e \in 0..(ext["tx"] - 1), f \in 0..(ext["ty"] - 1),
            g \in 0..(ext["xi"] - 1), h \in 0..(ext["yi"] - 1),
            i \in 0..(ext["bxi"] - 1)}

\* the output element (n, c, h, w) a point computes
OutputIndex(ext, how, p) ==
    << Value(ext, how, p, "axis0"), Value(ext, how, p, "axis1"),
       Value(ext, how, p, "axis2"), Value(ext, how, p, "axis3") >>

OutputSpace ==
    (0..(shape.N - 1)) \X (0..(shape.C - 1)) \X (0..(shape.H - 1)) \X (0..(shape.W - 1))

InBounds(idx) ==
    idx[1] < shape.N /\ idx[2] < shape.C /\ idx[3] < shape.H /\ idx[4] < shape.W

\* what the loop nest computes: <<element, grid-x, grid-y, point>> for every point
\* that passes the bound check of the uneven splits
Computed ==
    LET ext == sched.extents
        how == sched.derive
    IN  {c \in {<<OutputIndex(ext, how, p), p.bx, p.by, p>> : p \in AnchorPoints} :
            InBounds(c[1])}

\* the leaf bound to a thread axis, and the axis of the stage it was split from
BoundLeaves(bind, thread) == {l \in DOMAIN bind : bind[l] = thread}

AxesOn(root, ts, bind, thread) == {RootAxis(root, ts, l) : l \in BoundLeaves(bind, thread)}

Threads == (0..(sched.threads.threadIdx_x - 1)) \X (0..(sched.threads.threadIdx_y - 1))

\* the pairs <<thread, element>> such that physical thread (threadIdx.x, threadIdx.y)
\* writes the element of the tile: a bound leaf loop takes the thread's index, the
\* others run over their extent, and an element outside the tile is skipped by the
\* bound check
StageWrites(st) ==
    LET stage == sched.stages[st]
        range(l, th) ==
            IF l \in DOMAIN stage.bind
            THEN {IF stage.bind[l] = "threadIdx_x" THEN th[1] ELSE th[2]}
                 \cap (0..(stage.extents[l] - 1))
            ELSE 0..(stage.extents[l] - 1)
        at(p) == << Value(stage.extents, stage.derive, p, "axis2"),
                    Value(stage.extents, stage.derive, p, "axis3") >>
        runs == UNION {{<<th, at([tx |-> a, xi |-> b, ty |-> c, yi |-> d])>> :
                            a \in range("tx", th), b \in range("xi", th),
                            c \in range("ty", th), d \in range("yi", th)} : th \in Threads}
    IN  {w \in runs : w[2][1] < tile[1] /\ w[2][2] < tile[2]}

TileElements == (0..(tile[1] - 1)) \X (0..(tile[2] - 1))

Position(order, name) == CHOOSE i \in 1..Len(order) : order[i] = name

\* the operations a producer path leads to from k
RECURSIVE Upstream(_)
Upstream(k) ==
    LET direct == InputSet(graph, k) \ {0}
    IN  direct \cup UNION {Upstream(j) : j \in direct}

\* the operations traverse reaches from k: it goes on only below one-to-one-mapping operators
RECURSIVE MapReach(_)
MapReach(k) ==
    {k} \cup (IF IsMap(graph[k].tag)
              THEN UNION {MapReach(j) : j \in InputSet(graph, k) \ {0}}
              ELSE {})

PaddedInput == graph[sched.conv].inputs[1]

-----------------------------------------------------------------------------
(* Properties *)

\* C1: for every output height H and width W the derived parameters follow the
\* first-match table: bh is 48 if 48 divides H, else 32 if 32 divides H, else H;
\* (bw, vty) is (48, 3) if 48 divides W, else (32, 1) if 32 divides W, else (W, 1);
\* vtx is 1 and T is 8.  So (96,96) gives 48,48,3; (100,100) gives 100,100,1;
\* (64,64) gives 32,32,1.
C1_TilingRuleTable ==
    Scheduled =>
        LET tp == sched.tiling
            H  == shape.H
            W  == shape.W
        IN  /\ \/ H % 48 = 0 /\ tp.blocking_h = 48
               \/ H % 48 # 0 /\ H % 32 = 0 /\ tp.blocking_h = 32
               \/ H % 48 # 0 /\ H % 32 # 0 /\ tp.blocking_h = H
            /\ \/ W % 48 = 0 /\ tp.blocking_w = 48 /\ tp.num_vthread_y = 3
               \/ W % 48 # 0 /\ W % 32 = 0 /\ tp.blocking_w = 32 /\ tp.num_vthread_y = 1
               \/ W % 48 # 0 /\ W % 32 # 0 /\ tp.blocking_w = W /\ tp.num_vthread_y = 1
            /\ tp.num_vthread_x = 1
            /\ tp.num_thread = 8
            /\ (H = 96 /\ W = 96) =>
                  <<tp.blocking_h, tp.blocking_w, tp.num_vthread_y, tp.num_vthread_x>> = <<48, 48, 3, 1>>
            /\ (H = 100 /\ W = 100) =>
                  <<tp.blocking_h, tp.blocking_w, tp.num_vthread_y, tp.num_vthread_x>> = <<100, 100, 1, 1>>
            /\ (H = 64 /\ W = 64) =>
                  <<tp.blocking_h, tp.blocking_w, tp.num_vthread_y, tp.num_vthread_x>> = <<32, 32, 1, 1>>

C1_Witness == Returned /\ shape.H = 96 /\ shape.W = 96 /\ sched.tiling.blocking_h = 48

\* C2: when traverse has completed, every visited elementwise or scale-shift operation
\* that is not a declared output is inline, and a declared output is never inline,
\* whatever its category.
C2_InlineExceptRoot ==
    /\ status = "returned" =>
          \A k \in visited :
              (IsMap(graph[k].tag) /\ k \notin Outputs) => attach[k] = "inline"
    /\ status # "declaring" => \A k \in Outputs : attach[k] # "inline"

C2_Witness ==
    /\ status = "returned"
    /\ IsMap(graph[RootOp].tag)
    /\ attach[RootOp] = "root"
    /\ \E k \in visited : k # RootOp /\ IsMap(graph[k].tag) /\ attach[k] = "inline"

\* C3 (as claimed): a visited operation whose category is none of elementwise,
\* scale-shift and depthwise convolution aborts the construction, so no schedule is
\* returned after such a visit.
C3_UnsupportedAborts ==
    status = "returned" =>
        \A k \in visited : graph[k].tag \in {"ewise", "scale_shift", "depthwise_conv2d"}

\* C8 (as claimed): the scheduling of the convolution is applied exactly once, also
\* when the convolution is reached along more than one producer path.
C8_ScheduledOnce == ncalls <= 1

ExactlyOnce(done) ==
    /\ {c[1] : c \in done} = OutputSpace
    /\ Cardinality(done) = Cardinality(OutputSpace)
    /\ Cardinality({<<c[1], c[2], c[3]>> : c \in done}) = Cardinality(OutputSpace)

\* C5: when M divides C, the splits, fuses and binds of the anchor send exactly one
\* point of the loop nest (grid-x, grid-y, vthread-h, vthread-w, thread-x, thread-y,
\* row remainder, column remainder, multiplier unit) to each output element
\* (n, c, h, w): no element is computed twice, so the elements of distinct
\* (grid-x, grid-y) blocks are disjoint, and no element is left out, also for
\* whole-extent tiles that are not a multiple of 8.
C5_GridPartition == (Returned /\ shape.C % shape.M = 0) => ExactlyOnce(Computed)

C5_Witness ==
    /\ Returned
    /\ shape.N = 2 /\ shape.C = 2 /\ shape.M = 2 /\ shape.H = 12 /\ shape.W = 96
    /\ AnchorExtents["by"] = 2

\* C6 (as claimed): a local buffer holding the convolution result exists if and only
\* if the convolution output is not a declared output (a convolution that is the
\* output accumulates straight into the output buffer).
C6_LocalBufferIffNotRoot ==
    Scheduled =>
        (("CL" \in DOMAIN sched.stages \/ scope[sched.conv] = "local")
            <=> sched.conv \notin Outputs)

\* C6 (amended): a convolution that is the declared output is the stage that is split
\* and bound, keeps root placement and is never inline, and a local cache of its
\* result (cache_write) is created and computed at thread-y; a convolution followed by
\* an epilogue is itself given local scope and computed at thread-y of the declared
\* output, which is the stage split and bound.  A local buffer holds the convolution
\* result in both cases.
C6_ConvResultPlacement ==
    Scheduled =>
        /\ attach[sched.Output] = "root"
        /\ IF sched.conv \in Outputs
           THEN /\ sched.Output = sched.conv
                /\ scope[sched.conv] = ""
                /\ "CL" \in DOMAIN sched.stages
                /\ sched.stages["CL"].scope = "local"
                /\ sched.stages["CL"].reads = "DepthwiseConv2d"
                /\ sched.stages["CL"].at = "ty"
           ELSE /\ sched.Output = RootOp
                /\ sched.Output # sched.conv
                /\ scope[sched.conv] = "local"
                /\ attach[sched.conv] = "at_ty"
                /\ "CL" \notin DOMAIN sched.stages

C6_Witness == Returned /\ sched.conv \in Outputs /\ "CL" \in DOMAIN sched.stages

\* C7 (as claimed): every elementwise or scale-shift operation upstream of the
\* convolution's padded-input operand is inline in the final schedule.
C7_LeadingChainInline ==
    Returned =>
        \A k \in Upstream(PaddedInput) : IsMap(graph[k].tag) => attach[k] = "inline"

\* C7 (amended): traverse does not go below the convolution.  In the final schedule
\* the padded-input operand is inline, and an operation upstream of it is inline only
\* if traverse also reaches it from the output through one-to-one-mapping operators
\* alone; otherwise it keeps its root placement.  In a chain (leading operators,
\* convolution, epilogue) no leading operator is inline.
C7_LeadingChainKeepsRoot ==
    Returned =>
        /\ attach[PaddedInput] = "inline"
        /\ \A k \in Upstream(PaddedInput) :
              /\ k \in visited <=> k \in MapReach(RootOp)
              /\ k \notin visited => attach[k] = "root"
              /\ attach[k] = "inline" => (k \in visited /\ IsMap(graph[k].tag))

C7_Witness ==
    /\ Returned
    /\ \E k \in Upstream(PaddedInput) :
          IsMap(graph[k].tag) /\ k \notin visited /\ attach[k] = "root"

\* C9 (as claimed): on the anchor the thread split of the width axis is bound to
\* thread-x and the thread split of the height axis to thread-y, and both shared
\* loads bind the same directions to the same thread axes with extent 8.
C9_WidthOnThreadX ==
    Scheduled =>
        /\ AxesOn(sched.root, sched.transforms, sched.bind, "threadIdx_x") = {"axis3"}
        /\ AxesOn(sched.root, sched.transforms, sched.bind, "threadIdx_y") = {"axis2"}
        /\ \A st \in {"IS", "FS"} :
              /\ AxesOn(StageRoot, sched.stages[st].transforms, sched.stages[st].bind,
                        "threadIdx_x") = {"axis3"}
              /\ AxesOn(StageRoot, sched.stages[st].transforms, sched.stages[st].bind,
                        "threadIdx_y") = {"axis2"}

\* C9 (amended): on the anchor the thread split of the height axis (axis 2) is bound
\* to thread-x and the thread split of the width axis (axis 3) to thread-y; both
\* shared loads bind axis 2 to thread-x and axis 3 to thread-y; every one of these
\* splits has extent 8, the extent of the two thread axes.
C9_HeightOnThreadX ==
    Scheduled =>
        /\ AxesOn(sched.root, sched.transforms, sched.bind, "threadIdx_x") = {"axis2"}
        /\ AxesOn(sched.root, sched.transforms, sched.bind, "threadIdx_y") = {"axis3"}
        /\ sched.threads.threadIdx_x = 8 /\ sched.threads.threadIdx_y = 8
        /\ \A l \in BoundLeaves(sched.bind, "threadIdx_x") \cup BoundLeaves(sched.bind, "threadIdx_y") :
              sched.extents[l] = 8
        /\ \A st \in {"IS", "FS"} :
              LET stage == sched.stages[st]
                  ext   == stage.extents
              IN  /\ AxesOn(StageRoot, stage.transforms, stage.bind, "threadIdx_x") = {"axis2"}
                  /\ AxesOn(StageRoot, stage.transforms, stage.bind, "threadIdx_y") = {"axis3"}
                  /\ \A l \in DOMAIN stage.bind : ext[l] = 8

C9_Witness ==
    /\ Returned
    /\ sched.bind["tx"] = "threadIdx_x"
    /\ RootAxis(sched.root, sched.transforms, "tx") = "axis2"
    /\ sched.stages["IS"].bind["tx"] = "threadIdx_x"

\* C10: both shared-memory loads are computed at the block-y loop of the anchor,
\* outside the virtual-thread and thread loops, and the split of their two spatial
\* axes into 8 parts bound to thread-x and thread-y gives every element of the tile
\* to exactly one of the 8x8 threads, for every tile extent (also below 8 or not a
\* multiple of 8): no element is written by two threads and none is left unwritten.
C10_CooperativeFetch ==
    Returned =>
        \A st \in {"IS", "FS"} :
            /\ sched.stages[st].scope = "shared"
            /\ sched.stages[st].at = "by"
            /\ \A l \in {"tvx", "tvy", "tx", "ty"} :
                  Position(sched.order, "by") < Position(sched.order, l)
            /\ {w[2] : w \in StageWrites(st)} = TileElements
            /\ Cardinality(StageWrites(st)) = Cardinality(TileElements)

C10_Witness ==
    /\ Returned
    /\ tile = <<3, 17>>
    /\ \E th \in Threads : <<th, <<2, 16>>>> \in StageWrites("IS")

====
